---- MODULE Spec2Model ----
(***************************************************************************)
(* Model of src/modiHuffman.py: the HuffmanCoding object (its heap and     *)
(* code table), the compress and decompress pipelines step by step, and    *)
(* the persisted artifact (header, delimiter, packed payload).             *)
(*                                                                         *)
(* Representation                                                          *)
(*  - a Python str of '0'/'1' is a sequence of the strings "0" and "1";    *)
(*  - a Python dict is a sequence of [k, v] records in insertion order     *)
(*    (CPython dicts enumerate in insertion order, an update keeps the     *)
(*    key's position);                                                     *)
(*  - a HeapNode is a record; left/right are <<>> (None) or <<node>>;      *)
(*  - the decode tree (nested dicts) is a function from the path of bits   *)
(*    leading to a nested dict to its 'char' entry (NoChar when absent);   *)
(*  - a file is a sequence of integers: bytes 0..255, and, for the JSON    *)
(*    header text, one integer above 255 per JSON lexeme (no lexeme of     *)
(*    json.dumps output contains the byte 0x0A).                           *)
(***************************************************************************)
EXTENDS Integers, Sequences, FiniteSets, TLC

\* ------------------------------------------------------------------ bounds

MaxLen == 5
MaxReuseLen == 2
MaxOps == 3
MaxBits == 9
MaxTruncLen == 6
MaxEofReads == 2

SymbolOrder == <<"a", "b", "c", "d">>
Symbols == {SymbolOrder[i] : i \in DOMAIN SymbolOrder}

RECURSIVE SeqsUpTo(_, _)
SeqsUpTo(S, n) ==
  IF n = 0 THEN {<<>>}
  ELSE LET shorter == SeqsUpTo(S, n - 1)
       IN shorter \cup {Append(s, x) : s \in {t \in shorter : Len(t) = n - 1}, x \in S}

Texts == SeqsUpTo(Symbols, MaxLen)
ReuseTexts == SeqsUpTo(Symbols, MaxReuseLen)
BitStrings == SeqsUpTo({"0", "1"}, MaxBits)
LongTexts == SeqsUpTo(Symbols, MaxTruncLen)

\* ------------------------------------------------------------- Python dict

NoChar == "None"

DictKeys(d) == {d[i].k : i \in DOMAIN d}

DictGet(d, key) == d[CHOOSE i \in DOMAIN d : d[i].k = key].v

DictSet(d, key, val) ==
  IF key \in DictKeys(d)
  THEN [i \in DOMAIN d |-> IF d[i].k = key THEN [k |-> key, v |-> val] ELSE d[i]]
  ELSE Append(d, [k |-> key, v |-> val])

\* -------------------------------------------------------- HeapNode, heapq
\* heappush and heappop are CPython's heapq on a list (positions from 0, the
\* list element at position p is heap[p + 1]); they compare with __lt__ only.

HeapNode(char, freq) == [char |-> char, freq |-> freq, left |-> <<>>, right |-> <<>>]

Lt(self, other) == self.freq < other.freq

RECURSIVE SiftDownLoop(_, _, _, _)
SiftDownLoop(heap, startpos, pos, newitem) ==
  IF pos > startpos
  THEN LET parentpos == (pos - 1) \div 2
           parent == heap[parentpos + 1]
       IN IF Lt(newitem, parent)
          THEN SiftDownLoop([heap EXCEPT ![pos + 1] = parent], startpos, parentpos, newitem)
          ELSE [heap EXCEPT ![pos + 1] = newitem]
  ELSE [heap EXCEPT ![pos + 1] = newitem]

siftdown(heap, startpos, pos) == SiftDownLoop(heap, startpos, pos, heap[pos + 1])

RECURSIVE SiftUpLoop(_, _, _, _)
SiftUpLoop(heap, startpos, pos, newitem) ==
  LET endpos == Len(heap)
      childpos == 2 * pos + 1
  IN IF childpos < endpos
     THEN LET rightpos == childpos + 1
              c == IF rightpos < endpos /\ ~Lt(heap[childpos + 1], heap[rightpos + 1])
                   THEN rightpos ELSE childpos
          IN SiftUpLoop([heap EXCEPT ![pos + 1] = heap[c + 1]], startpos, c, newitem)
     ELSE siftdown([heap EXCEPT ![pos + 1] = newitem], startpos, pos)

siftup(heap, pos) == SiftUpLoop(heap, pos, pos, heap[pos + 1])

heappush(heap, item) == siftdown(Append(heap, item), 0, Len(heap))

\* heappop of a non-empty heap: the item returned and the heap left.
heappop(heap) ==
  LET lastelt == heap[Len(heap)]
      rest == SubSeq(heap, 1, Len(heap) - 1)
  IN IF rest # <<>>
     THEN [item |-> rest[1], heap |-> siftup([rest EXCEPT ![1] = lastelt], 0)]
     ELSE [item |-> lastelt, heap |-> rest]

\* ------------------------------------------------ tree and code table

RECURSIVE FrequencyLoop(_, _)
FrequencyLoop(text, frequency) ==
  IF text = <<>> THEN frequency
  ELSE LET character == Head(text)
           old == IF character \in DictKeys(frequency) THEN DictGet(frequency, character) ELSE 0
       IN FrequencyLoop(Tail(text), DictSet(frequency, character, old + 1))

make_frequency_dict(text) == FrequencyLoop(text, <<>>)

RECURSIVE make_heap(_, _)
make_heap(h, frequency) ==
  IF frequency = <<>> THEN h
  ELSE make_heap(heappush(h, HeapNode(frequency[1].k, frequency[1].v)), Tail(frequency))

MergeWeightFirstOnly(node1, node2) ==
  [char |-> NoChar, freq |-> node1.freq, left |-> <<node1>>, right |-> <<node2>>]

Merged(node1, node2) ==
  [char |-> NoChar, freq |-> node1.freq + node2.freq, left |-> <<node1>>, right |-> <<node2>>]

RECURSIVE merge_nodes(_)
merge_nodes(h) ==
  IF Len(h) > 1
  THEN LET p1 == heappop(h)
           p2 == heappop(p1.heap)
       IN merge_nodes(heappush(p2.heap, Merged(p1.item, p2.item)))
  ELSE h

LeftEdgeBoth(current_code, right) == current_code \o <<"0">>

EdgeCode(current_code, right) == current_code \o <<IF right THEN "1" ELSE "0">>

\* root: <<>> for None, <<node>> otherwise; returns self.codes after the call.
RECURSIVE make_codes_helper(_, _, _)
make_codes_helper(cds, root, current_code) ==
  IF root = <<>> THEN cds
  ELSE IF root[1].char # NoChar THEN DictSet(cds, root[1].char, current_code)
  ELSE make_codes_helper(
         make_codes_helper(cds, root[1].left, EdgeCode(current_code, FALSE)),
         root[1].right, EdgeCode(current_code, TRUE))

\* ----------------------------------------------------------- bit packing

RECURSIVE get_encoded_text(_, _)
get_encoded_text(cds, text) ==
  IF text = <<>> THEN <<>>
  ELSE DictGet(cds, Head(text)) \o get_encoded_text(cds, Tail(text))

Digit(n) == IF n = 0 THEN "0" ELSE "1"

RECURSIVE bin(_)
bin(n) == IF n < 2 THEN <<Digit(n)>> ELSE bin(n \div 2) \o <<Digit(n % 2)>>

rjust(s, width) ==
  IF Len(s) >= width THEN s ELSE [i \in 1..(width - Len(s)) |-> "0"] \o s

\* int(s, 2) of a non-empty string of binary digits.
RECURSIVE int2(_)
int2(s) ==
  IF Len(s) = 1 THEN (IF s[1] = "1" THEN 1 ELSE 0)
  ELSE 2 * int2(SubSeq(s, 1, Len(s) - 1)) + (IF s[Len(s)] = "1" THEN 1 ELSE 0)

PaddingZeroWhenAligned(n) == (8 - (n % 8)) % 8

ExtraPadding(n) == 8 - (n % 8)

pad_encoded_text(et) ==
  LET extra_padding == ExtraPadding(Len(et))
  IN rjust(bin(extra_padding), 8) \o et \o [i \in 1..extra_padding |-> "0"]

Min(a, b) == IF a < b THEN a ELSE b

RECURSIVE get_byte_array(_)
get_byte_array(padded) ==
  IF padded = <<>> THEN <<>>
  ELSE <<int2(SubSeq(padded, 1, Min(8, Len(padded))))>>
       \o get_byte_array(SubSeq(padded, 9, Len(padded)))

RECURSIVE unpack_bits(_)
unpack_bits(bytes) ==
  IF bytes = <<>> THEN <<>>
  ELSE rjust(bin(Head(bytes)), 8) \o unpack_bits(Tail(bytes))

\* padded[8:-extra_padding]; the caller has checked that padded[:8] is not empty.
remove_padding(padded) ==
  LET extra_padding == int2(SubSeq(padded, 1, Min(8, Len(padded))))
      stop == IF extra_padding = 0 THEN 0
              ELSE IF Len(padded) - extra_padding < 0 THEN 0
              ELSE Len(padded) - extra_padding
  IN SubSeq(padded, 9, stop)

\* ------------------------------------------------------ decode traversal

Prefixes(code) == {SubSeq(code, 1, n) : n \in 0..Len(code)}

\* for bit in code: node = node.setdefault(bit, {}); then node['char'] = char
TreeInsert(tree, char, code) ==
  [p \in DOMAIN tree \cup Prefixes(code) |->
     IF p = code THEN char ELSE IF p \in DOMAIN tree THEN tree[p] ELSE NoChar]

RECURSIVE BuildLoop(_, _)
BuildLoop(tree, items) ==
  IF items = <<>> THEN tree
  ELSE BuildLoop(TreeInsert(tree, items[1].k, items[1].v), Tail(items))

build_decode_tree(cds) == BuildLoop([p \in {<<>>} |-> NoChar], cds)

\* The loop of decode_text_tree from the position `node`; node[bit] of a dict
\* without that key raises KeyError.
RECURSIVE DecodeLoop(_, _, _, _)
DecodeLoop(bits, tree, nd, decoded_text) ==
  IF bits = <<>> THEN [text |-> decoded_text, node |-> nd, error |-> ""]
  ELSE LET next == Append(nd, Head(bits))
       IN IF next \notin DOMAIN tree
          THEN [text |-> decoded_text, node |-> nd, error |-> "KeyError"]
          ELSE IF tree[next] # NoChar
          THEN DecodeLoop(Tail(bits), tree, <<>>, Append(decoded_text, tree[next]))
          ELSE DecodeLoop(Tail(bits), tree, next, decoded_text)

decode_text_tree(et, tree) == DecodeLoop(et, tree, <<>>, <<>>)

\* ------------------------------------------------------- header framing

Ext == ".txt"

\* The lexemes of the header's JSON text; each is one file element above 255.
Lexemes == <<"{", "}", "frequency", "original_extension", Ext>> \o SymbolOrder

Tok(s) == 255 + (CHOOSE i \in DOMAIN Lexemes : Lexemes[i] = s)
CountTok(n) == 256 + Len(Lexemes) + n
IsCountTok(t) == t >= 256 + Len(Lexemes)
CountOf(t) == t - 256 - Len(Lexemes)
IsSymTok(t) == \E c \in Symbols : Tok(c) = t
SymOf(t) == CHOOSE c \in Symbols : Tok(c) = t

\* b'\n'
NL == 10

RECURSIVE DumpPairs(_)
DumpPairs(frequency) ==
  IF frequency = <<>> THEN <<>>
  ELSE <<Tok(frequency[1].k), CountTok(frequency[1].v)>> \o DumpPairs(Tail(frequency))

\* json.dumps({"frequency": frequency, "original_extension": ext})
json_dumps(frequency, ext) ==
  <<Tok("{"), Tok("frequency"), Tok("{")>> \o DumpPairs(frequency)
    \o <<Tok("}"), Tok("original_extension"), Tok(ext), Tok("}")>>

NoHeader ==
  [ok |-> FALSE, has_frequency |-> FALSE, frequency |-> <<>>, has_extension |-> FALSE]

RECURSIVE ParsePairs(_, _)
ParsePairs(toks, acc) ==
  IF toks = <<>> THEN [ok |-> FALSE, frequency |-> acc, rest |-> <<>>]
  ELSE IF toks[1] = Tok("}") THEN [ok |-> TRUE, frequency |-> acc, rest |-> Tail(toks)]
  ELSE IF Len(toks) >= 2 /\ IsSymTok(toks[1]) /\ IsCountTok(toks[2])
  THEN ParsePairs(SubSeq(toks, 3, Len(toks)), DictSet(acc, SymOf(toks[1]), CountOf(toks[2])))
  ELSE [ok |-> FALSE, frequency |-> acc, rest |-> <<>>]

RECURSIVE ParseMembers(_, _)
ParseMembers(toks, hdr) ==
  IF toks = <<>> THEN NoHeader
  ELSE IF toks = <<Tok("}")>> THEN [hdr EXCEPT !.ok = TRUE]
  ELSE IF Len(toks) >= 2 /\ toks[1] = Tok("frequency") /\ toks[2] = Tok("{")
  THEN LET p == ParsePairs(SubSeq(toks, 3, Len(toks)), <<>>)
       IN IF p.ok
          THEN ParseMembers(p.rest, [hdr EXCEPT !.has_frequency = TRUE, !.frequency = p.frequency])
          ELSE NoHeader
  ELSE IF Len(toks) >= 2 /\ toks[1] = Tok("original_extension") /\ toks[2] = Tok(Ext)
  THEN ParseMembers(SubSeq(toks, 3, Len(toks)), [hdr EXCEPT !.has_extension = TRUE])
  ELSE NoHeader

\* json.loads(header_bytes.decode('utf-8')); ok = FALSE stands for the ValueError
\* (UnicodeDecodeError or JSONDecodeError) it raises.
json_loads(toks) ==
  IF toks # <<>> /\ toks[1] = Tok("{") THEN ParseMembers(Tail(toks), NoHeader) ELSE NoHeader

\* ------------------------------------------- the files handed to decompress

Reverse(s) == [i \in DOMAIN s |-> s[Len(s) + 1 - i]]

InputKinds ==
  {"intact", "truncated", "reordered", "no_delimiter", "no_frequency", "no_extension",
   "garbled"}

\* An input file of decompress, made from the artifact compress wrote for
\* `frequency` and the payload `bytes`.
InputFile(kind, frequency, bytes) ==
  LET whole == json_dumps(frequency, Ext) \o <<NL>> \o bytes
      hdr == json_dumps(frequency, Ext)
  IN CASE kind = "intact" -> whole
       [] kind = "truncated" -> SubSeq(whole, 1, Len(whole) - 1)
       [] kind = "reordered" -> json_dumps(Reverse(frequency), Ext) \o <<NL>> \o bytes
       [] kind = "no_delimiter" -> hdr
       [] kind = "no_frequency" ->
            <<Tok("{"), Tok("original_extension"), Tok(Ext), Tok("}"), NL>> \o bytes
       [] kind = "no_extension" ->
            <<Tok("{"), Tok("frequency"), Tok("{")>> \o DumpPairs(frequency)
              \o <<Tok("}"), Tok("}"), NL>> \o bytes
       [] kind = "garbled" -> SubSeq(hdr, 1, Len(hdr) - 1) \o <<NL>> \o bytes

\* ---------------------------------------------------------------- state

VARIABLES
  heap, codes,                 \* self.heap, self.codes of the HuffmanCoding object
  op, pc, error,               \* the running method, its position, the exception raised
  text, frequency, encoded_text, padded_encoded_text, byte_array,
  file,                        \* the artifact compress wrote last
  input, pos, header_bytes,    \* the file decompress reads, its read position
  eof_reads,                   \* times file.read(1) returned b'' in the header loop
  bit_string, decode_tree, decompressed_text,
  node,                        \* decode_text_tree's node when its loop ended
  src_text, src_frequency, src_codes,   \* what compress used for the artifact
  kind,                        \* which input file decompress was handed
  ops                          \* invocations begun

object == <<heap, codes>>
locals == <<text, frequency, encoded_text, padded_encoded_text, byte_array, input, pos,
            eof_reads, header_bytes, bit_string, decode_tree, decompressed_text, node>>
artifact == <<file, src_text, src_frequency, src_codes>>
vars == <<object, op, pc, error, locals, artifact, kind, ops>>

Stopped == {"idle", "done", "failed"}

ClearLocals ==
  /\ frequency' = <<>>
  /\ encoded_text' = <<>>
  /\ padded_encoded_text' = <<>>
  /\ byte_array' = <<>>
  /\ pos' = 0
  /\ eof_reads' = 0
  /\ header_bytes' = <<>>
  /\ bit_string' = <<>>
  /\ decode_tree' = <<>>
  /\ decompressed_text' = <<>>
  /\ node' = <<>>

Init ==
  /\ heap = <<>> /\ codes = <<>>
  /\ op = "none" /\ pc = "idle" /\ error = ""
  /\ text = <<>> /\ frequency = <<>> /\ encoded_text = <<>>
  /\ padded_encoded_text = <<>> /\ byte_array = <<>>
  /\ file = <<>> /\ input = <<>> /\ pos = 0 /\ eof_reads = 0 /\ header_bytes = <<>>
  /\ bit_string = <<>> /\ decode_tree = <<>> /\ decompressed_text = <<>> /\ node = <<>>
  /\ src_text = <<>> /\ src_frequency = <<>> /\ src_codes = <<>>
  /\ kind = "none" /\ ops = 0

Raise(exc) == pc' = "failed" /\ error' = exc

\* ------------------------------------------------------------- compress

\* h = HuffmanCoding(path) (fresh) or the same object again; h.compress() reads text.
BeginCompress(T, fresh) ==
  /\ IF fresh THEN pc = "idle" ELSE pc \in Stopped /\ ops < MaxOps
  /\ op' = "compress" /\ pc' = "make_frequency_dict" /\ error' = ""
  /\ \E t \in T : text' = t
  /\ input' = <<>> /\ kind' = "none"
  /\ ClearLocals
  /\ IF fresh THEN heap' = <<>> /\ codes' = <<>> ELSE UNCHANGED object
  /\ ops' = ops + 1
  /\ UNCHANGED artifact

MakeFrequencyDict ==
  /\ pc = "make_frequency_dict"
  /\ frequency' = make_frequency_dict(text)
  /\ pc' = "make_heap"
  /\ UNCHANGED <<object, op, error, text, encoded_text, padded_encoded_text, byte_array,
                 input, pos, eof_reads, header_bytes, bit_string, decode_tree, decompressed_text,
                 node, artifact, kind, ops>>

MakeHeap ==
  /\ pc = "make_heap"
  /\ heap' = make_heap(heap, frequency)
  /\ pc' = "merge_nodes"
  /\ UNCHANGED <<codes, op, error, locals, artifact, kind, ops>>

MergeNodes ==
  /\ pc = "merge_nodes"
  /\ heap' = merge_nodes(heap)
  /\ pc' = "make_codes"
  /\ UNCHANGED <<codes, op, error, locals, artifact, kind, ops>>

\* heapq.heappop of an empty list raises IndexError.
MakeCodes ==
  /\ pc = "make_codes"
  /\ IF heap = <<>>
     THEN Raise("IndexError") /\ UNCHANGED object
     ELSE LET p == heappop(heap)
          IN /\ heap' = p.heap
             /\ codes' = make_codes_helper(codes, <<p.item>>, <<>>)
             /\ pc' = IF op = "compress" THEN "get_encoded_text" ELSE "read_payload"
             /\ UNCHANGED error
  /\ UNCHANGED <<op, locals, artifact, kind, ops>>

\* every character of text is a key of frequency, so of self.codes
GetEncodedText ==
  /\ pc = "get_encoded_text"
  /\ encoded_text' = get_encoded_text(codes, text)
  /\ pc' = "pad_encoded_text"
  /\ UNCHANGED <<object, op, error, text, frequency, padded_encoded_text, byte_array,
                 input, pos, eof_reads, header_bytes, bit_string, decode_tree, decompressed_text,
                 node, artifact, kind, ops>>

PadEncodedText ==
  /\ pc = "pad_encoded_text"
  /\ padded_encoded_text' = pad_encoded_text(encoded_text)
  /\ pc' = "get_byte_array"
  /\ UNCHANGED <<object, op, error, text, frequency, encoded_text, byte_array,
                 input, pos, eof_reads, header_bytes, bit_string, decode_tree, decompressed_text,
                 node, artifact, kind, ops>>

GetByteArray ==
  /\ pc = "get_byte_array"
  /\ byte_array' = get_byte_array(padded_encoded_text)
  /\ pc' = IF op = "compress" THEN "write" ELSE "unpack"
  /\ UNCHANGED <<object, op, error, text, frequency, encoded_text, padded_encoded_text,
                 input, pos, eof_reads, header_bytes, bit_string, decode_tree, decompressed_text,
                 node, artifact, kind, ops>>

\* output.write((json.dumps(header) + '\n').encode('utf-8')); output.write(byte_array)
WriteArtifact ==
  /\ pc = "write"
  /\ file' = json_dumps(frequency, Ext) \o <<NL>> \o byte_array
  /\ src_text' = text /\ src_frequency' = frequency /\ src_codes' = codes
  /\ pc' = "done"
  /\ UNCHANGED <<object, op, error, locals, kind, ops>>

\* ----------------------------------------------------------- decompress

\* h.decompress() of an input file derived from the artifact written last.
BeginDecompress(K, fresh) ==
  /\ file # <<>>
  /\ pc \in {"done", "failed"}
  /\ IF fresh THEN op = "compress" /\ pc = "done" ELSE ops < MaxOps
  /\ op' = "decompress" /\ pc' = "scan_header" /\ error' = ""
  /\ \E k \in K :
       /\ kind' = k
       /\ input' = InputFile(k, src_frequency,
                             SubSeq(file, Len(json_dumps(src_frequency, Ext)) + 2, Len(file)))
  /\ text' = <<>>
  /\ ClearLocals
  /\ IF fresh THEN heap' = <<>> /\ codes' = <<>> ELSE UNCHANGED object
  /\ ops' = ops + 1
  /\ UNCHANGED artifact

\* One iteration of the while True loop: file.read(1) returns b'' at the end of
\* the file, which is not b'\n' and appends nothing; the loop goes on. The model
\* counts these iterations up to MaxEofReads.
ScanHeader ==
  /\ pc = "scan_header"
  /\ \/ /\ pos < Len(input) /\ input[pos + 1] = NL
        /\ pos' = pos + 1 /\ pc' = "parse_header"
        /\ UNCHANGED <<header_bytes, eof_reads>>
     \/ /\ pos < Len(input) /\ input[pos + 1] # NL
        /\ pos' = pos + 1 /\ header_bytes' = Append(header_bytes, input[pos + 1])
        /\ UNCHANGED <<pc, eof_reads>>
     \/ /\ pos >= Len(input)
        /\ eof_reads < MaxEofReads
        /\ eof_reads' = eof_reads + 1
        /\ UNCHANGED <<pos, header_bytes, pc>>
  /\ UNCHANGED <<object, op, error, text, frequency, encoded_text, padded_encoded_text,
                 byte_array, input, bit_string, decode_tree, decompressed_text, node,
                 artifact, kind, ops>>

\* json.loads, header["frequency"], header["original_extension"]
ParseHeader ==
  /\ pc = "parse_header"
  /\ LET header == json_loads(header_bytes)
     IN IF ~header.ok THEN Raise("ValueError") /\ UNCHANGED frequency
        ELSE IF ~header.has_frequency \/ ~header.has_extension
        THEN Raise("KeyError") /\ UNCHANGED frequency
        ELSE frequency' = header.frequency /\ pc' = "make_heap" /\ UNCHANGED error
  /\ UNCHANGED <<object, op, text, encoded_text, padded_encoded_text, byte_array, input,
                 pos, eof_reads, header_bytes, bit_string, decode_tree, decompressed_text, node,
                 artifact, kind, ops>>

\* the loop unpacking every remaining byte into 8 bits
ReadPayload ==
  /\ pc = "read_payload"
  /\ bit_string' = unpack_bits(SubSeq(input, pos + 1, Len(input)))
  /\ UNCHANGED eof_reads
  /\ pos' = Len(input)
  /\ pc' = "remove_padding"
  /\ UNCHANGED <<object, op, error, text, frequency, encoded_text, padded_encoded_text,
                 byte_array, input, header_bytes, decode_tree, decompressed_text, node,
                 artifact, kind, ops>>

\* int('', 2) raises ValueError
RemovePadding ==
  /\ pc = "remove_padding"
  /\ IF bit_string = <<>>
     THEN Raise("ValueError") /\ UNCHANGED encoded_text
     ELSE encoded_text' = remove_padding(bit_string) /\ pc' = "build_decode_tree"
          /\ UNCHANGED error
  /\ UNCHANGED <<object, op, text, frequency, padded_encoded_text, byte_array, input, pos, eof_reads,
                 header_bytes, bit_string, decode_tree, decompressed_text, node,
                 artifact, kind, ops>>

BuildDecodeTree ==
  /\ pc = "build_decode_tree"
  /\ decode_tree' = build_decode_tree(codes)
  /\ pc' = "decode_text_tree"
  /\ UNCHANGED <<object, op, error, text, frequency, encoded_text, padded_encoded_text,
                 byte_array, input, pos, eof_reads, header_bytes, bit_string, decompressed_text,
                 node, artifact, kind, ops>>

\* decode_text_tree, then the decompressed text is written out
DecodeTextTree ==
  /\ pc = "decode_text_tree"
  /\ LET r == decode_text_tree(encoded_text, decode_tree)
     IN /\ node' = r.node
        /\ IF r.error # ""
           THEN Raise(r.error) /\ UNCHANGED decompressed_text
           ELSE decompressed_text' = r.text /\ pc' = "done" /\ UNCHANGED error
  /\ UNCHANGED <<object, op, text, frequency, encoded_text, padded_encoded_text,
                 byte_array, input, pos, eof_reads, header_bytes, bit_string, decode_tree,
                 artifact, kind, ops>>

\* ------------------------------------------------------- specifications

Pipeline ==
  \/ MakeFrequencyDict \/ MakeHeap \/ MergeNodes \/ MakeCodes
  \/ GetEncodedText \/ PadEncodedText \/ GetByteArray \/ WriteArtifact
  \/ ScanHeader \/ ParseHeader \/ ReadPayload \/ RemovePadding
  \/ BuildDecodeTree \/ DecodeTextTree

\* Every invocation on an object of its own.
Next ==
  \/ BeginCompress(Texts, TRUE)
  \/ BeginDecompress(InputKinds, TRUE)
  \/ Pipeline

Spec == Init /\ [][Next]_vars

\* One object serves every invocation.
NextReuse ==
  \/ BeginCompress(ReuseTexts, FALSE)
  \/ BeginDecompress({"intact"}, FALSE)
  \/ Pipeline

SpecReuse == Init /\ [][NextReuse]_vars

\* Decompress is handed the artifact with its last byte missing.
NextTruncated ==
  \/ BeginCompress(LongTexts, TRUE)
  \/ BeginDecompress({"truncated"}, TRUE)
  \/ Pipeline

SpecTruncated == Init /\ [][NextTruncated]_vars

\* The padding round trip of an arbitrary bit-string: pad_encoded_text,
\* get_byte_array, the unpacking loop of decompress, remove_padding.
InitPad ==
  /\ heap = <<>> /\ codes = <<>>
  /\ op = "padding" /\ pc = "pad_encoded_text" /\ error = ""
  /\ text = <<>> /\ frequency = <<>> /\ encoded_text \in BitStrings
  /\ padded_encoded_text = <<>> /\ byte_array = <<>>
  /\ file = <<>> /\ input = <<>> /\ pos = 0 /\ eof_reads = 0 /\ header_bytes = <<>>
  /\ bit_string = <<>> /\ decode_tree = <<>> /\ decompressed_text = <<>> /\ node = <<>>
  /\ src_text = <<>> /\ src_frequency = <<>> /\ src_codes = <<>>
  /\ kind = "none" /\ ops = 0

UnpackPayload ==
  /\ pc = "unpack"
  /\ input' = byte_array
  /\ bit_string' = unpack_bits(byte_array)
  /\ UNCHANGED eof_reads
  /\ pos' = Len(byte_array)
  /\ pc' = "unpad"
  /\ UNCHANGED <<object, op, error, text, frequency, encoded_text, padded_encoded_text,
                 byte_array, header_bytes, decode_tree, decompressed_text, node,
                 artifact, kind, ops>>

\* remove_padding of the unpacked bits; the result is kept in decompressed_text
Unpad ==
  /\ pc = "unpad"
  /\ decompressed_text' = remove_padding(bit_string)
  /\ pc' = "done"
  /\ UNCHANGED <<object, op, error, text, frequency, encoded_text, padded_encoded_text,
                 byte_array, input, pos, eof_reads, header_bytes, bit_string, decode_tree, node,
                 artifact, kind, ops>>

NextPad == PadEncodedText \/ GetByteArray \/ UnpackPayload \/ Unpad

SpecPad == InitPad /\ [][NextPad]_vars

\* --------------------------------------------------------------- claims

AsMapping(d) == [key \in DictKeys(d) |-> DictGet(d, key)]

IsPrefix(u, w) == Len(u) <= Len(w) /\ SubSeq(w, 1, Len(u)) = u

\* make_codes has returned normally in the running invocation.
CodesMade ==
  /\ op \in {"compress", "decompress"}
  /\ pc \in {"get_encoded_text", "pad_encoded_text", "get_byte_array", "write",
             "read_payload", "remove_padding", "build_decode_tree", "decode_text_tree",
             "done"}

\* What a fresh object computes: the code table of a frequency table, the
\* artifact of a text, the text of a parsed header and its payload bits.
FreshCodes(f) ==
  LET h == merge_nodes(make_heap(<<>>, f))
  IN make_codes_helper(<<>>, <<heappop(h).item>>, <<>>)

FreshCompress(t) ==
  LET f == make_frequency_dict(t)
  IN json_dumps(f, Ext) \o <<NL>>
       \o get_byte_array(pad_encoded_text(get_encoded_text(FreshCodes(f), t)))

FreshDecompress(f, bits) ==
  decode_text_tree(remove_padding(bits), build_decode_tree(FreshCodes(f))).text

RECURSIVE SumCounts(_)
SumCounts(f) == IF f = <<>> THEN 0 ELSE f[1].v + SumCounts(Tail(f))

RECURSIVE WeightsOk(_, _)
WeightsOk(n, f) ==
  IF n.char # NoChar
  THEN /\ n.left = <<>> /\ n.right = <<>>
       /\ n.char \in DictKeys(f)
       /\ n.freq = DictGet(f, n.char)
  ELSE /\ Len(n.left) = 1 /\ Len(n.right) = 1
       /\ n.freq = n.left[1].freq + n.right[1].freq
       /\ WeightsOk(n.left[1], f)
       /\ WeightsOk(n.right[1], f)

\* C1: compressing a non-empty text on a fresh object and decompressing the
\* artifact, as written, on a fresh object ends normally and yields the text.
C1_RoundTrip ==
  (op = "decompress" /\ kind = "intact" /\ pc \in {"done", "failed"})
    => (pc = "done" /\ decompressed_text = src_text)

\* C2: the code table is a function of the symbol-to-count mapping alone: when
\* decompress rebuilds the table from a header holding the same mapping as the
\* one compress used, in whatever order its entries are enumerated, it gets the
\* code table compress got.
C2_Determinism ==
  (op = "decompress" /\ CodesMade /\ AsMapping(frequency) = AsMapping(src_frequency))
    => AsMapping(codes) = AsMapping(src_codes)

\* C3: a frequency table with exactly one entry gives that symbol a non-empty code.
C3_SingleSymbolCode ==
  (CodesMade /\ Len(frequency) = 1) => DictGet(codes, frequency[1].k) # <<>>

\* C4: for a frequency table with at least one entry, no code of the table
\* make_codes produced is a prefix of the code of another symbol.
C4_PrefixFree ==
  (CodesMade /\ Len(frequency) >= 1)
    => \A x, y \in DictKeys(codes) :
         x # y => ~IsPrefix(DictGet(codes, x), DictGet(codes, y))

C4_Witness ==
  /\ CodesMade
  /\ Cardinality(DictKeys(codes)) >= 3
  /\ \E x, y \in DictKeys(codes) : Len(DictGet(codes, x)) < Len(DictGet(codes, y))

\* C5: the padding count in the first 8 bits is in 1..8 (8 when the bit-string
\* is byte-aligned), that many zero bits are appended, and remove_padding of
\* the unpacked bytes of the padded bit-string returns the bit-string.
C5_PaddingRoundTrip ==
  /\ (op = "padding" /\ pc \in {"get_byte_array", "unpack", "unpad", "done"})
       => LET n == int2(SubSeq(padded_encoded_text, 1, 8))
              total == Len(padded_encoded_text)
          IN /\ n \in 1..8
             /\ (n = 8) <=> (Len(encoded_text) % 8 = 0)
             /\ total = 8 + Len(encoded_text) + n
             /\ \A i \in (total - n + 1)..total : padded_encoded_text[i] = "0"
  /\ (op = "padding" /\ pc \in {"unpad", "done"}) => bit_string = padded_encoded_text
  /\ (op = "padding" /\ pc = "done") => decompressed_text = encoded_text

C5_Witness ==
  /\ op = "padding" /\ pc = "done"
  /\ Len(encoded_text) = 8
  /\ Len(byte_array) = 3
  /\ decompressed_text = encoded_text

\* C6: compressing an empty text fails with EmptyInputError and writes nothing.
C6_EmptyInputRejected ==
  (op = "compress" /\ text = <<>> /\ pc \in {"done", "failed"})
    => (pc = "failed" /\ error = "EmptyInputError" /\ file = <<>>)

\* C7: when the bits run out while the decoding walk is inside a code (not at
\* the root), decompress fails with CorruptStreamError.
C7_TruncatedDetected ==
  (op = "decompress" /\ pc \in {"done", "failed"} /\ node # <<>>)
    => (pc = "failed" /\ error = "CorruptStreamError")

\* C8: on an input without delimiter byte the header scan stops once the input
\* is exhausted, and decompress of an input whose header is unterminated or
\* lacks the frequency table or the format tag ends with FormatError.
C8_MissingHeaderRejected ==
  (op = "decompress" /\ kind \in {"no_delimiter", "no_frequency", "no_extension"})
    => /\ pc = "scan_header" => eof_reads = 0
       /\ pc # "done"
       /\ pc = "failed" => error = "FormatError"

\* C9: an invocation on an object that served earlier invocations gives the
\* result it gives on a fresh object.
C9_NoCrossContamination ==
  /\ (op = "compress" /\ pc = "done") => file = FreshCompress(text)
  /\ (op = "decompress" /\ pc = "done")
       => decompressed_text = FreshDecompress(frequency, bit_string)

\* C10: when merge_nodes has returned for a frequency table with at least one
\* entry, the heap holds one tree in which every leaf weighs its symbol's count,
\* every internal node has two children and weighs their sum, and the root
\* weighs the sum of all counts (the length of the text compress read).
C10_WeightInvariant ==
  (pc = "make_codes" /\ Len(frequency) >= 1)
    => /\ Len(heap) = 1
       /\ WeightsOk(heap[1], frequency)
       /\ heap[1].freq = SumCounts(frequency)
       /\ op = "compress" => heap[1].freq = Len(text)

C10_Witness ==
  /\ pc = "make_codes"
  /\ Len(frequency) >= 3
  /\ Len(heap) = 1
  /\ heap[1].char = NoChar
  /\ heap[1].freq = SumCounts(frequency)

====
